---- MODULE Spec2Model ----
(***************************************************************************)
(* Model of the axionax faucet (tools/faucet/src/main.rs): the handler     *)
(* request_tokens run by several concurrent tasks over the two shared maps *)
(* of FaucetState, each behind a tokio RwLock, plus the stats handler.     *)
(*                                                                         *)
(* Time is SystemTime in whole seconds, counted from the start of the run  *)
(* (time 0 of the model is an arbitrary instant, not the UNIX epoch).  The *)
(* clock advances in steps of ClockStep and never goes back.               *)
(* send_transaction, a stub that returns Ok in the source, is modelled by  *)
(* its signature: it returns Ok or Err after any delay.                    *)
(***************************************************************************)
EXTENDS Integers, Sequences, FiniteSets, TLC

\* ------------------------------------------------------------------ bounds

\* Number of request_tokens tasks that can be in flight at once.
NumTasks == 2

\* The clock stops after this many steps in LongSpec, SeqSpec and
\* OriginSpec ...
MaxTicks == 2

\* ... and after this many in Spec, CaseSpec and LiveSpec.
ShortTicks == 1

\* ------------------------------------------------------- program constants

COOLDOWN_HOURS == 24

MAX_REQUESTS_PER_IP == 3

\* Duration::from_secs(COOLDOWN_HOURS * 3600)
Cooldown == COOLDOWN_HOURS * 3600

\* ------------------------------------------------------ 64-bit unsigned words

\* A natural number is held as the sequence of its digits in base 2^16, the
\* least significant first; a u64 is four of them.
Base == 65536

U64Digits == 4

\* The digits of x * m + carry, one more than those of x (m and carry are below
\* 2^15, so that every intermediate value fits the integers of the checker).
RECURSIVE MulSmall(_, _, _)
MulSmall(x, m, carry) ==
    IF x = <<>>
    THEN <<carry>>
    ELSE LET v == Head(x) * m + carry
         IN  <<v % Base>> \o MulSmall(Tail(x), m, v \div Base)

\* The digits of x \div d, as many as those of x: long division from the most
\* significant digit, rem being the remainder brought down.
RECURSIVE DivSmall(_, _, _)
DivSmall(x, d, rem) ==
    IF x = <<>>
    THEN <<>>
    ELSE LET v == rem * Base + x[Len(x)]
         IN  DivSmall(SubSeq(x, 1, Len(x) - 1), d, v % d) \o <<v \div d>>

\* x * 10^4 ... , the digits growing by one with each factor
RECURSIVE MulPow10000(_, _)
MulPow10000(x, n) ==
    IF n = 0 THEN x ELSE MulPow10000(MulSmall(x, 10000, 0), n - 1)

\* x \div 1_000_000_000_000_000_000
Div1e18(x) ==
    DivSmall(DivSmall(DivSmall(DivSmall(DivSmall(x, 10000, 0), 10000, 0),
                               10000, 0), 10000, 0), 100, 0)

\* The number a sequence of digits stands for, when it is small.
RECURSIVE Value(_)
Value(x) == IF x = <<>> THEN 0 ELSE Head(x) + Base * Value(Tail(x))

\* The conversion of a wider number to u64 keeps the low 64 bits.
as_u64(x) == SubSeq(x, 1, U64Digits)

\* The digits above the low 64 bits are not all zero.
Overflows(x) == \E i \in U64Digits + 1 .. Len(x) : x[i] # 0

\* The literal 100_000_000_000_000_000_000 = (10^4)^5, which takes 67 bits.
FaucetAmountLiteral == MulPow10000(<<1>>, 5)

\* const FAUCET_AMOUNT: u64 = 100_000_000_000_000_000_000;
\* The literal does not fit u64: rustc rejects it (overflowing_literals is
\* deny by default), and with the lint allowed the constant is the literal
\* modulo 2^64, the only value a build of this source gives it.
FAUCET_AMOUNT == as_u64(FaucetAmountLiteral)

\* total_requests as u64 * FAUCET_AMOUNT, before it is narrowed to 64 bits
Product(total) == MulSmall(FAUCET_AMOUNT, total, 0)

\* format!("{} AXX", FAUCET_AMOUNT / 1_000_000_000_000_000_000)
amount_per_request == Value(Div1e18(FAUCET_AMOUNT))

\* --------------------------------------------------------------- the inputs

Tasks == 1 .. NumTasks

\* The clock moves by half a cooldown, so that elapsed times of 0, less than,
\* exactly and more than the cooldown all occur.
ClockStep == Cooldown \div 2

\* client_ip: Option<String>; NoIp is None.
NoIp == "None"

\* The origin the requests come from, and a second one for OriginSpec.
Origin == "1.2.3.4"

Origin2 == "5.6.7.8"

Rep(c, n) == [i \in 1 .. n |-> c]

Str0x == <<"0", "x">>

\* The strings of the model.  A string is held in the state by a short name and
\* computed on as the sequence of its characters: ".." in a name stands for the
\* repetitions that make 40 characters after the prefix (39 where said so).
\* Well-formed addresses in normal form.
AddrA == "0xaa..aa"

AddrB == "0xbb..bb"

AddrC == "0xcc..cc"

AddrD == "0x11..11"

\* Malformed ones: too short, not hexadecimal, no prefix.
AddrShort == "0xaa..aa (39)"

AddrNotHex == "0xaa..ag"

AddrText == "not-an-address"

\* The first address in other forms: in upper case and padded with whitespace,
\* in upper case, and with its digits in upper case.
AddrAUpper == " 0XAA..AA "

AddrAUpperTrimmed == "0XAA..AA"

AddrAMixed == "0xAA..AA"

\* More malformed ones: too long, 42 digits without the prefix, whitespace
\* within, and nothing but whitespace.
AddrLong == "0xaa..aa (41)"

AddrNoPrefix == "aa..aa (42)"

AddrInner == "0xaa.. ..aa"

AddrBlank == "  "

Text ==
    (AddrA :> Str0x \o Rep("a", 40)) @@
    (AddrAUpper :> <<" ", "0", "X">> \o Rep("A", 40) \o <<"\n">>) @@
    (AddrAUpperTrimmed :> <<"0", "X">> \o Rep("A", 40)) @@
    (AddrAMixed :> Str0x \o Rep("A", 40)) @@
    (AddrLong :> Str0x \o Rep("a", 41)) @@
    (AddrNoPrefix :> Rep("a", 42)) @@
    (AddrInner :> Str0x \o Rep("a", 20) \o <<" ">> \o Rep("a", 19)) @@
    (AddrBlank :> <<" ", "\t">>) @@
    (AddrB :> Str0x \o Rep("b", 40)) @@
    (AddrC :> Str0x \o Rep("c", 40)) @@
    (AddrD :> Str0x \o Rep("1", 40)) @@
    (AddrShort :> Str0x \o Rep("a", 39)) @@
    (AddrNotHex :> Str0x \o Rep("a", 39) \o <<"g">>) @@
    (AddrText :> <<"n", "o", "t", "-", "a", "n", "-",
                   "a", "d", "d", "r", "e", "s", "s">>) @@
    ("" :> <<>>)

\* The characters of a string, and the string of a sequence of characters.
Chars(name) == Text[name]

Name(chars) == CHOOSE name \in DOMAIN Text : Text[name] = chars

\* Raw payload.address values: addresses in normal form and malformed ones,
RawAddresses ==
    {AddrA, AddrB, AddrC, AddrD, AddrShort, AddrNotHex, AddrText}

\* and the other forms of the first address, with more malformed ones, of
\* which CaseSpec draws.
RawVariants ==
    {AddrA, AddrAUpper, AddrAUpperTrimmed, AddrAMixed, AddrB,
     AddrLong, AddrNoPrefix, AddrInner, AddrBlank}

\* ------------------------------------------------------------ pure functions

Whitespace == {" ", "\t", "\n", "\r"}

RECURSIVE trim_start(_)
trim_start(s) ==
    IF s # <<>> /\ Head(s) \in Whitespace THEN trim_start(Tail(s)) ELSE s

RECURSIVE trim_end(_)
trim_end(s) ==
    IF s # <<>> /\ s[Len(s)] \in Whitespace
    THEN trim_end(SubSeq(s, 1, Len(s) - 1))
    ELSE s

\* str::trim
trim(s) == trim_end(trim_start(s))

UpperToLower ==
    [c \in {"A", "B", "C", "D", "E", "F", "G", "X"} |->
        CASE c = "A" -> "a" [] c = "B" -> "b" [] c = "C" -> "c"
          [] c = "D" -> "d" [] c = "E" -> "e" [] c = "F" -> "f"
          [] c = "G" -> "g" [] c = "X" -> "x"]

\* str::to_lowercase, on the characters of the inputs
to_lowercase(s) ==
    [i \in 1 .. Len(s) |->
        IF s[i] \in DOMAIN UpperToLower THEN UpperToLower[s[i]] ELSE s[i]]

HexDigits ==
    {"0", "1", "2", "3", "4", "5", "6", "7", "8", "9",
     "a", "b", "c", "d", "e", "f", "A", "B", "C", "D", "E", "F"}

is_ascii_hexdigit(c) == c \in HexDigits

starts_with(s, prefix) ==
    Len(s) >= Len(prefix) /\ SubSeq(s, 1, Len(prefix)) = prefix

\* The length is not checked.
is_valid_address_any_len(address) ==
    LET s == Chars(address)
    IN  /\ starts_with(s, Str0x)
        /\ \A i \in 3 .. Len(s) : is_ascii_hexdigit(s[i])

is_valid_address(address) ==
    LET s == Chars(address)
    IN  /\ starts_with(s, Str0x)
        /\ Len(s) = 42
        /\ \A i \in 3 .. Len(s) : is_ascii_hexdigit(s[i])

\* The address is trimmed and not lower-cased.
NormalizeTrimOnly(raw) == Name(trim(Chars(raw)))

\* let address = payload.address.trim().to_lowercase();
Normalize(raw) == Name(to_lowercase(trim(Chars(raw))))

\* The two times are taken the wrong way round.
duration_since_swapped(t, earlier) == IF earlier >= t THEN earlier - t ELSE 0

\* now.duration_since(last_request).unwrap_or(Duration::ZERO)
duration_since(t, earlier) == IF t >= earlier THEN t - earlier ELSE 0

\* A timestamp as old as the cutoff is kept.
retain_from(requests, cutoff) == SelectSeq(requests, LAMBDA time : time >= cutoff)

\* requests.retain(|&time| time > cutoff)
retain(requests, cutoff) == SelectSeq(requests, LAMBDA time : time > cutoff)

\* The ceiling is compared with > instead of >=.
RateLimitExceeded(requests) == Len(requests) > MAX_REQUESTS_PER_IP

\* requests.len() >= MAX_REQUESTS_PER_IP
RateLimitReached(requests) == Len(requests) >= MAX_REQUESTS_PER_IP

\* elapsed < cooldown
InCooldown(elapsed) == elapsed < Cooldown

\* An entry that exists is kept, as by entry(key).or_insert(value).
insert_if_absent(map, key, value) ==
    IF key \in DOMAIN map THEN map ELSE (key :> value) @@ map

\* HashMap::insert
insert(map, key, value) == (key :> value) @@ map

\* HashMap::entry(key).or_insert_with(Vec::new)
or_insert(map, key) == IF key \in DOMAIN map THEN map ELSE (key :> <<>>) @@ map

\* ------------------------------------------------------------------- state

VARIABLES
    now,               \* SystemTime::now()
    address_requests,  \* FaucetState.address_requests: address -> last grant time
    ip_requests,       \* FaucetState.ip_requests: ip -> grant times
    addr_lock,         \* tasks holding the write lock of address_requests
    ip_lock,           \* tasks holding the write lock of ip_requests
    pc,                \* where each task is in request_tokens
    payload,           \* request_tokens: payload.address
    client_ip,         \* request_tokens: the argument client_ip
    address,           \* request_tokens: the local address
    req_now,           \* request_tokens: the local now of the address check
    sent,              \* history: send_transaction was called for the request
    granted,           \* history: per address, the requests that returned Ok
                       \* (grant time, origin and payload.address of each)
    response           \* the last response a handler returned

vars ==
    <<now, address_requests, ip_requests, addr_lock, ip_lock, pc, payload,
      client_ip, address, req_now, sent, granted, response>>

EmptyMap == [k \in {} |-> 0]

Addresses == {Normalize(raw) : raw \in RawAddresses \cup RawVariants}

NoResponse ==
    [kind |-> "None", raw |-> "", address |-> "", ip |-> NoIp,
     remaining |-> 0, sent |-> FALSE, total |-> 0, distributed |-> 0]

Init ==
    /\ now = 0
    /\ address_requests = EmptyMap
    /\ ip_requests = EmptyMap
    /\ addr_lock = {}
    /\ ip_lock = {}
    /\ pc = [p \in Tasks |-> "idle"]
    /\ payload = [p \in Tasks |-> ""]
    /\ client_ip = [p \in Tasks |-> NoIp]
    /\ address = [p \in Tasks |-> ""]
    /\ req_now = [p \in Tasks |-> 0]
    /\ sent = [p \in Tasks |-> FALSE]
    /\ granted = [a \in Addresses |-> <<>>]
    /\ response = NoResponse

\* ----------------------------------------------------------- request_tokens

\* The handler returns: its locals are gone, the response is what is left.
Return(p, kind, remaining) ==
    /\ pc' = [pc EXCEPT ![p] = "idle"]
    /\ payload' = [payload EXCEPT ![p] = ""]
    /\ client_ip' = [client_ip EXCEPT ![p] = NoIp]
    /\ address' = [address EXCEPT ![p] = ""]
    /\ req_now' = [req_now EXCEPT ![p] = 0]
    /\ sent' = [sent EXCEPT ![p] = FALSE]
    /\ response' = [kind |-> kind, raw |-> payload[p], address |-> address[p],
                    ip |-> client_ip[p], remaining |-> remaining,
                    sent |-> sent[p], total |-> 0, distributed |-> 0]

\* The handler is called with a payload and the caller's origin, and
\* normalizes the address.
Receive(p, raw, ip) ==
    /\ pc[p] = "idle"
    /\ pc' = [pc EXCEPT ![p] = "received"]
    /\ payload' = [payload EXCEPT ![p] = raw]
    /\ client_ip' = [client_ip EXCEPT ![p] = ip]
    /\ address' = [address EXCEPT ![p] = Normalize(raw)]
    /\ UNCHANGED <<now, address_requests, ip_requests, addr_lock, ip_lock,
                   req_now, sent, granted, response>>

\* The address is validated only after the origin's entry was made.
ValidateLate(p) ==
    /\ pc[p] = "received"
    /\ IF ~is_valid_address(address[p])
       THEN /\ Return(p, "InvalidAddress", 0)
            /\ ip_requests' = or_insert(ip_requests, client_ip[p])
       ELSE /\ pc' = [pc EXCEPT ![p] =
                         IF client_ip[p] # NoIp THEN "ip_lock" ELSE "addr_lock"]
            /\ UNCHANGED <<payload, client_ip, address, req_now, sent,
                           response, ip_requests>>
    /\ UNCHANGED <<now, address_requests, addr_lock, ip_lock, granted>>

\* A request without origin is rate limited like one with an origin.
ValidateAllLimited(p) ==
    /\ pc[p] = "received"
    /\ IF ~is_valid_address(address[p])
       THEN Return(p, "InvalidAddress", 0)
       ELSE /\ pc' = [pc EXCEPT ![p] = "ip_lock"]
            /\ UNCHANGED <<payload, client_ip, address, req_now, sent,
                           response>>
    /\ UNCHANGED <<now, address_requests, ip_requests, addr_lock, ip_lock,
                   granted>>

\* The address is validated.
Validate(p) ==
    /\ pc[p] = "received"
    /\ IF ~is_valid_address(address[p])
       THEN Return(p, "InvalidAddress", 0)
       ELSE /\ pc' = [pc EXCEPT ![p] =
                         IF client_ip[p] # NoIp THEN "ip_lock" ELSE "addr_lock"]
            /\ UNCHANGED <<payload, client_ip, address, req_now, sent,
                           response>>
    /\ UNCHANGED <<now, address_requests, ip_requests, addr_lock, ip_lock,
                   granted>>

\* state.ip_requests.write().await of the rate limit check
AcquireIp(p) ==
    /\ pc[p] = "ip_lock"
    /\ ip_lock = {}
    /\ ip_lock' = {p}
    /\ pc' = [pc EXCEPT ![p] = "ip_check"]
    /\ UNCHANGED <<now, address_requests, ip_requests, addr_lock, payload,
                   client_ip, address, req_now, sent, granted, response>>

\* The rate limit check comes after the cooldown check: here it lets the
\* request through to the cooldown check.
CheckIpLater(p) ==
    /\ pc[p] = "ip_check"
    /\ pc' = [pc EXCEPT ![p] = "addr_lock"]
    /\ ip_lock' = {}
    /\ UNCHANGED <<now, address_requests, ip_requests, addr_lock, payload,
                   client_ip, address, req_now, sent, granted, response>>

\* The guard of ip_requests is kept when the check passes.
CheckIpKeepsLock(p) ==
    /\ pc[p] = "ip_check"
    /\ LET ip == client_ip[p]
           cutoff == now - Cooldown
           requests == retain(or_insert(ip_requests, ip)[ip], cutoff)
       IN  /\ ip_requests' = insert(ip_requests, ip, requests)
           /\ IF RateLimitReached(requests)
              THEN Return(p, "RateLimited", 0) /\ ip_lock' = {}
              ELSE /\ pc' = [pc EXCEPT ![p] = "addr_lock"]
                   /\ UNCHANGED <<payload, client_ip, address, req_now, sent,
                                  response, ip_lock>>
    /\ UNCHANGED <<now, address_requests, addr_lock, granted>>

\* The rate limit check under the lock; the guard is dropped at the end of the
\* block or by the return.
CheckIp(p) ==
    /\ pc[p] = "ip_check"
    /\ LET ip == client_ip[p]
           cutoff == now - Cooldown
           requests == retain(or_insert(ip_requests, ip)[ip], cutoff)
       IN  /\ ip_requests' = insert(ip_requests, ip, requests)
           /\ IF RateLimitReached(requests)
              THEN Return(p, "RateLimited", 0)
              ELSE /\ pc' = [pc EXCEPT ![p] = "addr_lock"]
                   /\ UNCHANGED <<payload, client_ip, address, req_now, sent,
                                  response>>
    /\ ip_lock' = {}
    /\ UNCHANGED <<now, address_requests, addr_lock, granted>>

\* The lock does not exclude a second task.
AcquireAddrShared(p) ==
    /\ pc[p] = "addr_lock"
    /\ addr_lock' = addr_lock \cup {p}
    /\ pc' = [pc EXCEPT ![p] = "addr_check"]
    /\ UNCHANGED <<now, address_requests, ip_requests, ip_lock, payload,
                   client_ip, address, req_now, sent, granted, response>>

\* state.address_requests.write().await
AcquireAddr(p) ==
    /\ pc[p] = "addr_lock"
    /\ addr_lock = {}
    /\ addr_lock' = {p}
    /\ pc' = [pc EXCEPT ![p] = "addr_check"]
    /\ UNCHANGED <<now, address_requests, ip_requests, ip_lock, payload,
                   client_ip, address, req_now, sent, granted, response>>

\* The guard of address_requests is dropped before send_transaction is called.
CheckAddrReleases(p) ==
    /\ pc[p] = "addr_check"
    /\ IF /\ address[p] \in DOMAIN address_requests
          /\ InCooldown(duration_since(now, address_requests[address[p]]))
       THEN Return(p, "TooSoon",
                   Cooldown - duration_since(now, address_requests[address[p]]))
       ELSE /\ pc' = [pc EXCEPT ![p] = "transfer"]
            /\ req_now' = [req_now EXCEPT ![p] = now]
            /\ sent' = [sent EXCEPT ![p] = TRUE]
            /\ UNCHANGED <<payload, client_ip, address, response>>
    /\ addr_lock' = {}
    /\ UNCHANGED <<now, address_requests, ip_requests, ip_lock, granted>>

\* send_transaction is called before the cooldown is checked.
CheckAddrSendFirst(p) ==
    /\ pc[p] = "addr_check"
    /\ IF /\ address[p] \in DOMAIN address_requests
          /\ InCooldown(duration_since(now, address_requests[address[p]]))
       THEN /\ pc' = [pc EXCEPT ![p] = "idle"]
            /\ payload' = [payload EXCEPT ![p] = ""]
            /\ client_ip' = [client_ip EXCEPT ![p] = NoIp]
            /\ address' = [address EXCEPT ![p] = ""]
            /\ response' =
                   [kind |-> "TooSoon", raw |-> payload[p],
                    address |-> address[p], ip |-> client_ip[p],
                    remaining |->
                        Cooldown
                          - duration_since(now, address_requests[address[p]]),
                    sent |-> TRUE, total |-> 0, distributed |-> 0]
            /\ addr_lock' = {}
            /\ UNCHANGED <<req_now, sent>>
       ELSE /\ pc' = [pc EXCEPT ![p] = "transfer"]
            /\ req_now' = [req_now EXCEPT ![p] = now]
            /\ sent' = [sent EXCEPT ![p] = TRUE]
            /\ UNCHANGED <<payload, client_ip, address, response, addr_lock>>
    /\ UNCHANGED <<now, address_requests, ip_requests, ip_lock, granted>>

\* A request denied TooSoon is counted in the vector of its origin.
CheckAddrCounting(p) ==
    /\ pc[p] = "addr_check"
    /\ IF /\ address[p] \in DOMAIN address_requests
          /\ InCooldown(duration_since(now, address_requests[address[p]]))
       THEN /\ Return(p, "TooSoon",
                      Cooldown - duration_since(now, address_requests[address[p]]))
            /\ addr_lock' = {}
            /\ ip_requests' =
                   IF client_ip[p] = NoIp
                   THEN ip_requests
                   ELSE insert(ip_requests, client_ip[p],
                               Append(or_insert(ip_requests, client_ip[p])
                                          [client_ip[p]], now))
       ELSE /\ pc' = [pc EXCEPT ![p] = "transfer"]
            /\ req_now' = [req_now EXCEPT ![p] = now]
            /\ sent' = [sent EXCEPT ![p] = TRUE]
            /\ UNCHANGED <<payload, client_ip, address, response, addr_lock,
                           ip_requests>>
    /\ UNCHANGED <<now, address_requests, ip_lock, granted>>

\* The cooldown check; when it passes, send_transaction is called with the
\* guard of address_requests still alive.
CheckAddr(p) ==
    /\ pc[p] = "addr_check"
    /\ IF /\ address[p] \in DOMAIN address_requests
          /\ InCooldown(duration_since(now, address_requests[address[p]]))
       THEN /\ Return(p, "TooSoon",
                      Cooldown - duration_since(now, address_requests[address[p]]))
            /\ addr_lock' = {}
       ELSE /\ pc' = [pc EXCEPT ![p] = "transfer"]
            /\ req_now' = [req_now EXCEPT ![p] = now]
            /\ sent' = [sent EXCEPT ![p] = TRUE]
            /\ UNCHANGED <<payload, client_ip, address, response, addr_lock>>
    /\ UNCHANGED <<now, address_requests, ip_requests, ip_lock, granted>>

\* The request of task p returns Ok.
Grant(p) ==
    granted' = [granted EXCEPT ![address[p]] =
                   Append(@, [time |-> req_now[p], ip |-> client_ip[p],
                              raw |-> payload[p]])]

\* send_transaction returned Ok: the address is recorded; with an origin the
\* task goes on to take the lock of ip_requests, without one it returns.
TransferOk(p) ==
    /\ pc[p] = "transfer"
    /\ address_requests' = insert(address_requests, address[p], req_now[p])
    /\ IF client_ip[p] # NoIp
       THEN /\ pc' = [pc EXCEPT ![p] = "commit_lock"]
            /\ UNCHANGED <<payload, client_ip, address, req_now, sent,
                           response, addr_lock, granted>>
       ELSE /\ Return(p, "Ok", 0)
            /\ addr_lock' = {}
            /\ Grant(p)
    /\ UNCHANGED <<now, ip_requests, ip_lock>>

\* state.ip_requests.write().await of the commit
AcquireIpCommit(p) ==
    /\ pc[p] = "commit_lock"
    /\ ip_lock = {}
    /\ ip_lock' = {p}
    /\ pc' = [pc EXCEPT ![p] = "commit"]
    /\ UNCHANGED <<now, address_requests, ip_requests, addr_lock, payload,
                   client_ip, address, req_now, sent, granted, response>>

\* The grant time is pushed twice.
CommitIpTwice(p) ==
    /\ pc[p] = "commit"
    /\ LET ip == client_ip[p]
       IN  ip_requests' =
               insert(ip_requests, ip,
                      Append(Append(or_insert(ip_requests, ip)[ip], req_now[p]),
                             req_now[p]))
    /\ ip_lock' = {}
    /\ addr_lock' = {}
    /\ Grant(p)
    /\ Return(p, "Ok", 0)
    /\ UNCHANGED <<now, address_requests>>

\* The grant time is pushed to the origin's vector and the handler returns Ok,
\* dropping both guards.
CommitIp(p) ==
    /\ pc[p] = "commit"
    /\ LET ip == client_ip[p]
       IN  ip_requests' =
               insert(ip_requests, ip,
                      Append(or_insert(ip_requests, ip)[ip], req_now[p]))
    /\ ip_lock' = {}
    /\ addr_lock' = {}
    /\ Grant(p)
    /\ Return(p, "Ok", 0)
    /\ UNCHANGED <<now, address_requests>>

\* Err(FaucetError) of send_transaction's Result
GatewayErrors == {"RpcError"}

\* send_transaction returned Err(e): the handler returns it.
TransferErr(p, e) ==
    /\ pc[p] = "transfer"
    /\ Return(p, e, 0)
    /\ addr_lock' = {}
    /\ UNCHANGED <<now, address_requests, ip_requests, ip_lock, granted>>

\* -------------------------------------------------------------------- stats

\* address_requests.len()
len(map) == Cardinality(DOMAIN map)

\* The response of stats for a map of total_requests entries:
\* total_distributed is the product narrowed to 64 bits, in whole AXX.  Where
\* the product overflows, a build with overflow checks (the debug profile)
\* panics instead, and the task of the request ends without a response.
StatsResponses(total_requests) ==
    {[kind |-> "Stats", raw |-> "", address |-> "", ip |-> NoIp,
      remaining |-> 0, sent |-> FALSE, total |-> total_requests,
      distributed |-> Value(Div1e18(as_u64(Product(total_requests))))]}
    \cup
    IF Overflows(Product(total_requests))
    THEN {[kind |-> "Panic", raw |-> "", address |-> "", ip |-> NoIp,
           remaining |-> 0, sent |-> FALSE, total |-> total_requests,
           distributed |-> 0]}
    ELSE {}

\* The entries of the other map are counted.
StatsOfIpRequests ==
    /\ addr_lock = {}
    /\ response' \in StatsResponses(len(ip_requests))
    /\ UNCHANGED <<now, address_requests, ip_requests, addr_lock, ip_lock, pc,
                   payload, client_ip, address, req_now, sent, granted>>

\* The read lock is granted when no task holds the write lock.
Stats ==
    /\ addr_lock = {}
    /\ response' \in StatsResponses(len(address_requests))
    /\ UNCHANGED <<now, address_requests, ip_requests, addr_lock, ip_lock, pc,
                   payload, client_ip, address, req_now, sent, granted>>

\* -------------------------------------------------------------------- clock

Tick(ticks) ==
    /\ now + ClockStep <= ticks * ClockStep
    /\ now' = now + ClockStep
    /\ UNCHANGED <<address_requests, ip_requests, addr_lock, ip_lock, pc,
                   payload, client_ip, address, req_now, sent, granted,
                   response>>

\* ----------------------------------------------------------- specifications

Step(p) ==
    \/ Validate(p)
    \/ AcquireIp(p)
    \/ CheckIp(p)
    \/ AcquireAddr(p)
    \/ CheckAddr(p)
    \/ TransferOk(p)
    \/ \E e \in GatewayErrors : TransferErr(p, e)
    \/ AcquireIpCommit(p)
    \/ CommitIp(p)

\* Spec: concurrent requests from one origin for any of the addresses, over a
\* short time.
Next ==
    \/ \E p \in Tasks, raw \in RawAddresses : Receive(p, raw, Origin)
    \/ \E p \in Tasks : Step(p)
    \/ Stats
    \/ Tick(ShortTicks)

Spec == Init /\ [][Next]_vars

\* LongSpec: concurrent requests with and without an origin for two addresses,
\* over more than a cooldown.
LongNext ==
    \/ \E p \in Tasks, raw \in {AddrA, AddrB, AddrText},
          ip \in {Origin, NoIp} : Receive(p, raw, ip)
    \/ \E p \in Tasks : Step(p)
    \/ Stats
    \/ Tick(MaxTicks)

LongSpec == Init /\ [][LongNext]_vars

\* SeqSpec: requests from one origin processed one after another, for any of
\* the addresses, over more than a cooldown.
SeqNext ==
    \/ \E p \in Tasks, raw \in RawAddresses :
          /\ \A q \in Tasks : pc[q] = "idle"
          /\ Receive(p, raw, Origin)
    \/ \E p \in Tasks : Step(p)
    \/ Stats
    \/ Tick(MaxTicks)

SeqSpec == Init /\ [][SeqNext]_vars

\* CaseSpec: concurrent requests from one origin that submit one address in
\* several forms, a second address and malformed strings, over a short time.
CaseNext ==
    \/ \E p \in Tasks, raw \in RawVariants : Receive(p, raw, Origin)
    \/ \E p \in Tasks : Step(p)
    \/ Stats
    \/ Tick(ShortTicks)

CaseSpec == Init /\ [][CaseNext]_vars

\* OriginSpec: requests processed one after another, over more than a
\* cooldown: the first origin asks for three addresses, a second origin and
\* callers without origin ask for a fourth.
OriginNext ==
    \/ \E p \in Tasks :
          /\ \A q \in Tasks : pc[q] = "idle"
          /\ \/ \E raw \in {AddrA, AddrB, AddrC} : Receive(p, raw, Origin)
             \/ \E ip \in {Origin2, NoIp} : Receive(p, AddrD, ip)
    \/ \E p \in Tasks : Step(p)
    \/ Stats
    \/ Tick(MaxTicks)

OriginSpec == Init /\ [][OriginNext]_vars

\* LiveSpec: concurrent requests with and without an origin for one address
\* and a malformed one, over a short time, under a fair scheduler: a task that
\* can run is run (the tokio runtime polls every woken task), a task that
\* waits for a lock gets it when it is free again and again (tokio's RwLock
\* queues its waiters in order), and send_transaction returns.
LiveNext ==
    \/ \E p \in Tasks, raw \in {AddrA, AddrText}, ip \in {Origin, NoIp} :
          Receive(p, raw, ip)
    \/ \E p \in Tasks : Step(p)
    \/ Stats
    \/ Tick(ShortTicks)

Fairness ==
    \A p \in Tasks :
        /\ WF_vars(Validate(p))
        /\ SF_vars(AcquireIp(p))
        /\ WF_vars(CheckIp(p))
        /\ SF_vars(AcquireAddr(p))
        /\ WF_vars(CheckAddr(p))
        /\ WF_vars(TransferOk(p) \/ \E e \in GatewayErrors : TransferErr(p, e))
        /\ SF_vars(AcquireIpCommit(p))
        /\ WF_vars(CommitIp(p))

LiveSpec == Init /\ [][LiveNext]_vars /\ Fairness

\* ------------------------------------------------------------------- claims

\* The times of the grants recorded in an origin's vector that lie within the
\* cooldown window that ends at time t.
InWindow(requests, t) ==
    {i \in 1 .. Len(requests) : t - requests[i] < Cooldown}

\* The successful requests of an origin whose grant time lies within the
\* cooldown window that ends at time t.
GrantedInWindow(ip, t) ==
    {x \in UNION {{<<a, i>> : i \in 1 .. Len(granted[a])} : a \in Addresses} :
        /\ granted[x[1]][x[2]].ip = ip
        /\ t - granted[x[1]][x[2]].time < Cooldown}

\* The successful requests for address a so far.
GrantsOf(a) == IF a \in DOMAIN granted THEN granted[a] ELSE <<>>

\* C1: any two successful grants to the same address have grant times at
\* least the cooldown apart, under any interleaving of the tasks.
C1_GrantsCooldownApart ==
    \A a \in Addresses : \A i, j \in 1 .. Len(granted[a]) :
        i < j => granted[a][j].time - granted[a][i].time >= Cooldown

\* C1 witness: an address has been granted twice.
C1_Witness == \E a \in Addresses : Len(granted[a]) >= 2

\* C2: no origin has more than MAX_REQUESTS_PER_IP recorded grant times
\* within one trailing cooldown window.
C2_OriginCeiling ==
    \A ip \in DOMAIN ip_requests :
        Cardinality(InWindow(ip_requests[ip], now)) <= MAX_REQUESTS_PER_IP

\* C3: a task that awaits send_transaction holds neither lock, and a task that
\* waits for the address lock for another address can take it.
C3_NoLockInFlight ==
    \A p \in Tasks :
        pc[p] = "transfer" =>
            /\ p \notin addr_lock \cup ip_lock
            /\ \A q \in Tasks :
                  (pc[q] = "addr_lock" /\ address[q] # address[p])
                      => ENABLED AcquireAddr(q)

\* The origin check and the cooldown check of a request for address a from
\* origin ip at time t, on the maps ips and addrs, both pass.
Admissible(ips, addrs, ip, a, t) ==
    /\ ip # NoIp =>
          ~RateLimitReached(retain(or_insert(ips, ip)[ip], t - Cooldown))
    /\ ~(a \in DOMAIN addrs /\ InCooldown(duration_since(t, addrs[a])))

\* C4: when send_transaction fails the request returns the error, both maps
\* are as they were, and the same request, made again at once, passes both
\* checks.
C4_FailedTransferKeepsEligible ==
    [][\A p \in Tasks :
          (pc[p] = "transfer" /\ pc'[p] = "idle"
              /\ response'.kind \in GatewayErrors)
          => /\ address_requests' = address_requests
             /\ ip_requests' = ip_requests
             /\ Admissible(ip_requests', address_requests', client_ip[p],
                           address[p], now')]_vars

\* C5: a request that reaches the cooldown check at a time less than the
\* cooldown after a grant to its address at time t returns TooSoon with
\* remaining = cooldown - (now - t), which is in (0, cooldown], and
\* send_transaction is not called for it.
C5_TooSoonWithinCooldown ==
    [][\A p \in Tasks : \A i \in 1 .. Len(GrantsOf(address[p])) :
          LET t == GrantsOf(address[p])[i].time
          IN  (pc[p] = "addr_check" /\ pc'[p] # "addr_check"
                  /\ now >= t /\ now - t < Cooldown)
              => /\ pc'[p] = "idle"
                 /\ response'.kind = "TooSoon"
                 /\ response'.remaining = Cooldown - (now - t)
                 /\ response'.remaining > 0
                 /\ response'.remaining <= Cooldown
                 /\ ~response'.sent]_vars

\* C5 witness: a request was denied with part of the cooldown left.
C5_Witness ==
    /\ response.kind = "TooSoon"
    /\ response.remaining > 0
    /\ response.remaining < Cooldown
    /\ ~response.sent

\* C6: in a run where requests are processed one after another, a request
\* that reaches the rate limit check when its origin has MAX_REQUESTS_PER_IP
\* successful requests with grant times within the trailing cooldown window
\* returns RateLimited, whatever its address, and send_transaction is not
\* called for it.
C6_CeilingDenies ==
    [][\A p \in Tasks :
          (pc[p] = "ip_check" /\ pc'[p] # "ip_check"
              /\ Cardinality(GrantedInWindow(client_ip[p], now))
                    >= MAX_REQUESTS_PER_IP)
          => /\ pc'[p] = "idle"
             /\ response'.kind = "RateLimited"
             /\ ~response'.sent
             /\ address_requests' = address_requests
             /\ granted' = granted]_vars

\* C6 witness: a request for a valid address that was never granted has been
\* denied RateLimited.
C6_Witness ==
    /\ response.kind = "RateLimited"
    /\ is_valid_address(response.address)
    /\ GrantsOf(response.address) = <<>>
    /\ response.address \notin DOMAIN address_requests

\* C7: a request whose origin is at its ceiling and whose address is within
\* its cooldown returns RateLimited, not TooSoon.
C7_OriginCheckedFirst ==
    [][\A p \in Tasks :
          (pc[p] = "ip_check" /\ pc'[p] # "ip_check"
              /\ Cardinality(InWindow(or_insert(ip_requests, client_ip[p])
                                          [client_ip[p]], now))
                    >= MAX_REQUESTS_PER_IP
              /\ address[p] \in DOMAIN address_requests
              /\ now - address_requests[address[p]] < Cooldown)
          => /\ pc'[p] = "idle"
             /\ response'.kind = "RateLimited"]_vars

\* C7 witness: a request for an address within its cooldown has been denied
\* RateLimited.
C7_Witness ==
    /\ response.kind = "RateLimited"
    /\ response.address \in DOMAIN address_requests
    /\ now - address_requests[response.address] < Cooldown

\* C8: a request whose address fails validation returns InvalidAddress and
\* leaves both maps, their sets of keys included, and both locks as they were;
\* send_transaction is not called for it.
C8_InvalidAddressTouchesNothing ==
    [][\A p \in Tasks :
          (pc[p] = "received" /\ pc'[p] # "received"
              /\ ~is_valid_address(Normalize(payload[p])))
          => /\ pc'[p] = "idle"
             /\ response'.kind = "InvalidAddress"
             /\ ~response'.sent
             /\ address_requests' = address_requests
             /\ ip_requests' = ip_requests
             /\ DOMAIN ip_requests' = DOMAIN ip_requests
             /\ addr_lock' = addr_lock
             /\ ip_lock' = ip_lock
             /\ p \notin addr_lock' \cup ip_lock']_vars

\* C8 witness: a malformed address has been rejected while the maps held
\* grants.
C8_Witness ==
    /\ response.kind = "InvalidAddress"
    /\ ~is_valid_address(response.address)
    /\ address_requests # EmptyMap
    /\ ip_requests # EmptyMap

\* send_transaction has returned Ok to task p in this step.
TransferSucceeds(p) ==
    /\ pc[p] = "transfer"
    /\ \/ pc'[p] = "commit_lock"
       \/ pc'[p] = "idle" /\ response'.kind = "Ok"

\* C9: a request that reaches the cooldown check when the cooldown of its
\* address has fully elapsed (now - last grant >= cooldown) goes on to the
\* transfer; and a successful transfer for an address that has an entry
\* replaces the time of that entry by the later time of this request and adds
\* no entry, so that the address is in cooldown again.
C9_RegrantOverwrites ==
    [][\A p \in Tasks :
          LET a == address[p]
              g == GrantsOf(a)
          IN  /\ (pc[p] = "addr_check" /\ pc'[p] # "addr_check" /\ g # <<>>
                      /\ now - g[Len(g)].time >= Cooldown)
                  => pc'[p] = "transfer" /\ response' = response
              /\ (TransferSucceeds(p) /\ a \in DOMAIN address_requests)
                  => /\ DOMAIN address_requests' = DOMAIN address_requests
                     /\ address_requests' =
                            [address_requests EXCEPT ![a] = req_now[p]]
                     /\ req_now[p] - address_requests[a] >= Cooldown
                     /\ now' - req_now[p] < Cooldown
                            => ~Admissible(ip_requests', address_requests',
                                           NoIp, a, now')]_vars

\* C9 witness: an address was granted again exactly one cooldown after its
\* first grant, and its entry holds the time of the second grant.
C9_Witness ==
    \E a \in DOMAIN address_requests :
        /\ Len(granted[a]) = 2
        /\ granted[a][2].time - granted[a][1].time = Cooldown
        /\ address_requests[a] = granted[a][2].time

\* C10: total_requests of stats is the number of distinct addresses with at
\* least one successful request.
C10_StatsCountsAddresses ==
    response.kind = "Stats"
        => response.total = Cardinality({a \in Addresses : granted[a] # <<>>})

\* C10 witness: stats reports 1 after two grants to one address.
C10_Witness ==
    /\ response.kind = "Stats"
    /\ response.total = 1
    /\ \E a \in Addresses : Len(granted[a]) = 2

\* The amount per request: 100 AXX.
AxxPerRequest == 100

\* C11: total_distributed of stats is total_requests times 100 AXX, the
\* product in wei computed in u64 without overflow (no wrap-around, and no
\* panic of a build that checks for overflow).
C11_DistributedIsProduct ==
    /\ response.kind # "Panic"
    /\ response.kind = "Stats" =>
          /\ ~Overflows(Product(response.total))
          /\ response.distributed = response.total * AxxPerRequest

\* A character in lower case.
Lower(c) == IF c \in DOMAIN UpperToLower THEN UpperToLower[c] ELSE c

LowerHexDigits ==
    {"0", "1", "2", "3", "4", "5", "6", "7", "8", "9",
     "a", "b", "c", "d", "e", "f"}

\* The 42 characters of s from position i on are, in lower case, "0x" and 40
\* hexadecimal digits, and s has nothing but whitespace around them.
WellFormedAt(s, i) ==
    /\ i + 41 <= Len(s)
    /\ \A k \in 1 .. i - 1 : s[k] \in Whitespace
    /\ \A k \in i + 42 .. Len(s) : s[k] \in Whitespace
    /\ Lower(s[i]) = "0"
    /\ Lower(s[i + 1]) = "x"
    /\ \A k \in i + 2 .. i + 41 : Lower(s[k]) \in LowerHexDigits

WellFormed(s) == \E i \in 1 .. Len(s) : WellFormedAt(s, i)

\* The lower-cased, trimmed form of a well-formed string.
Canonical(s) ==
    LET i == CHOOSE i \in 1 .. Len(s) : WellFormedAt(s, i)
    IN  [k \in 1 .. 42 |-> Lower(s[i + k - 1])]

\* Both, for each string of the model.
WellFormedText == [name \in DOMAIN Text |-> WellFormed(Text[name])]

CanonicalText ==
    [name \in {n \in DOMAIN Text : WellFormed(Text[n])} |->
        Canonical(Text[name])]

\* C12: validation accepts payload.address exactly when, trimmed and in lower
\* case, it is "0x" followed by 40 hexadecimal digits, and rejects every other
\* string with InvalidAddress; a request past validation carries the address
\* in its trimmed, lower-cased form.
C12_ValidationAcceptsWellFormed ==
    [][\A p \in Tasks :
          /\ (pc[p] = "received" /\ pc'[p] # "received")
                => IF WellFormedText[payload[p]]
                   THEN pc'[p] \in {"ip_lock", "addr_lock"}
                   ELSE /\ pc'[p] = "idle"
                        /\ response'.kind = "InvalidAddress"
                        /\ response'.raw = payload[p]
          /\ pc'[p] \notin {"idle", "received"}
                => /\ WellFormedText[payload'[p]]
                   /\ Chars(address'[p]) = CanonicalText[payload'[p]]]_vars

\* C12 witness: the address in upper case and padded with whitespace has been
\* accepted and is carried in lower case without the padding, and a string of
\* 42 hexadecimal digits without the prefix has been rejected.
C12_Witness ==
    /\ response.kind = "InvalidAddress"
    /\ response.raw = AddrNoPrefix
    /\ \E p \in Tasks :
          /\ pc[p] = "transfer"
          /\ payload[p] = AddrAUpper
          /\ address[p] = AddrA

\* Two strings are forms of one address: they differ in letter case and in
\* the whitespace around them only.
SameAddress(r1, r2) ==
    /\ WellFormedText[r1]
    /\ WellFormedText[r2]
    /\ CanonicalText[r1] = CanonicalText[r2]

\* The successful requests so far, whatever key they were recorded under.
AllGrants == UNION {{granted[k][i] : i \in 1 .. Len(granted[k])} : k \in Addresses}

\* C13: a request that reaches the cooldown check less than the cooldown after
\* a grant to the same address, submitted in any form, returns TooSoon without
\* a transfer; every key of address_requests is in normal form, and the forms
\* of one address have a single entry.
C13_VariantsShareEntry ==
    [][/\ \A p \in Tasks :
             (/\ pc[p] = "addr_check"
              /\ pc'[p] # "addr_check"
              /\ \E g \in AllGrants :
                    /\ SameAddress(g.raw, payload[p])
                    /\ now >= g.time
                    /\ now - g.time < Cooldown)
             => /\ pc'[p] = "idle"
                /\ response'.kind = "TooSoon"
                /\ ~response'.sent
       /\ \A k \in DOMAIN address_requests' :
             /\ WellFormedText[k]
             /\ Chars(k) = CanonicalText[k]
             /\ \A k2 \in DOMAIN address_requests' :
                   SameAddress(k, k2) => k = k2]_vars

\* C13 witness: after a grant to the address in one form, a request that
\* submits it in another form has been denied TooSoon, and the map has one
\* entry.
C13_Witness ==
    /\ response.kind = "TooSoon"
    /\ ~response.sent
    /\ len(address_requests) = 1
    /\ \E g \in AllGrants :
          /\ g.raw # response.raw
          /\ SameAddress(g.raw, response.raw)
          /\ now - g.time < Cooldown

\* The vector of an origin, empty when the map has no entry for it.
Window(ips, ip) == IF ip \in DOMAIN ips THEN ips[ip] ELSE <<>>

\* The request of task p returns Ok in this step.
ReturnsOk(p) ==
    /\ pc[p] \in {"transfer", "commit"}
    /\ pc'[p] = "idle"
    /\ response'.kind = "Ok"

\* C14: a request that returns Ok leaves its address mapped to its grant time
\* and, with an origin, has pushed that time once to the vector of its origin
\* and changed no other vector; the address map is written only by the one
\* step of a request in which its transfer returns Ok, one key at a time; and
\* a vector grows only by the push of a request of its origin that returns Ok.
C14_OneWriteOneAppend ==
    [][/\ \A p \in Tasks :
             /\ ReturnsOk(p) =>
                   /\ address[p] \in DOMAIN address_requests'
                   /\ address_requests'[address[p]] = req_now[p]
                   /\ IF client_ip[p] = NoIp
                      THEN ip_requests' = ip_requests
                      ELSE /\ DOMAIN ip_requests' =
                                  DOMAIN ip_requests \cup {client_ip[p]}
                           /\ ip_requests'[client_ip[p]] =
                                  Append(Window(ip_requests, client_ip[p]),
                                         req_now[p])
                           /\ \A ip \in DOMAIN ip_requests \ {client_ip[p]} :
                                  ip_requests'[ip] = ip_requests[ip]
             /\ (pc[p] \in {"commit_lock", "commit"} /\ pc'[p] # pc[p])
                   => address_requests' = address_requests
       /\ address_requests' # address_requests =>
             \E p \in Tasks :
                 /\ TransferSucceeds(p)
                 /\ DOMAIN address_requests' =
                        DOMAIN address_requests \cup {address[p]}
                 /\ address_requests'[address[p]] = req_now[p]
                 /\ \A a \in DOMAIN address_requests \ {address[p]} :
                        address_requests'[a] = address_requests[a]
       /\ \A ip \in DOMAIN ip_requests' :
             Len(ip_requests'[ip]) > Len(Window(ip_requests, ip)) =>
                 /\ Len(ip_requests'[ip]) = Len(Window(ip_requests, ip)) + 1
                 /\ \E p \in Tasks : ReturnsOk(p) /\ client_ip[p] = ip]_vars

\* C14 witness: both origins have grant times in their vectors, and the last
\* request returned Ok with its grant time the last of its origin's vector.
C14_Witness ==
    /\ response.kind = "Ok"
    /\ response.ip # NoIp
    /\ \A ip \in {Origin, Origin2} : Window(ip_requests, ip) # <<>>
    /\ LET w == Window(ip_requests, response.ip)
           g == GrantsOf(response.address)
       IN  /\ g # <<>>
           /\ w[Len(w)] = g[Len(g)].time
           /\ address_requests[response.address] = g[Len(g)].time

\* How often time t occurs in a vector.
Occurrences(requests, t) ==
    Cardinality({i \in 1 .. Len(requests) : requests[i] = t})

\* C15: a request that returns RateLimited or TooSoon leaves address_requests
\* as it was and adds no timestamp to any vector (TooSoon leaves ip_requests
\* as it was, RateLimited may only have removed timestamps); every timestamp
\* of a vector is the grant time of a successful request of that origin; and a
\* request whose origin has fewer than MAX_REQUESTS_PER_IP successful requests
\* in the trailing window passes the rate limit check, however many of the
\* origin's requests were denied.
C15_DenialsCountNothing ==
    [][/\ \A p \in Tasks :
             /\ (/\ pc[p] # "idle"
                 /\ pc'[p] = "idle"
                 /\ response'.kind \in {"RateLimited", "TooSoon"})
                => /\ address_requests' = address_requests
                   /\ granted' = granted
                   /\ response'.kind = "TooSoon" => ip_requests' = ip_requests
                   /\ \A ip \in DOMAIN ip_requests' :
                         \A i \in 1 .. Len(ip_requests'[ip]) :
                             LET t == ip_requests'[ip][i]
                             IN  Occurrences(ip_requests'[ip], t)
                                   <= Occurrences(Window(ip_requests, ip), t)
             /\ (/\ pc[p] = "ip_check"
                 /\ pc'[p] # "ip_check"
                 /\ Cardinality(GrantedInWindow(client_ip[p], now))
                        < MAX_REQUESTS_PER_IP)
                => pc'[p] = "addr_lock"
       /\ \A ip \in DOMAIN ip_requests' :
             \A i \in 1 .. Len(ip_requests'[ip]) :
                 LET t == ip_requests'[ip][i]
                 IN  Occurrences(ip_requests'[ip], t)
                         <= Cardinality({g \in AllGrants' :
                                            g.ip = ip /\ g.time = t})]_vars

\* C15 witness: the last request of the first origin was denied TooSoon, and
\* the next one has passed the rate limit check with the two grants of the
\* origin in its vector.
C15_Witness ==
    /\ response.kind = "TooSoon"
    /\ response.ip = Origin
    /\ Len(Window(ip_requests, Origin)) = MAX_REQUESTS_PER_IP - 1
    /\ Cardinality(GrantedInWindow(Origin, now)) = MAX_REQUESTS_PER_IP - 1
    /\ \E p \in Tasks : pc[p] = "addr_lock" /\ client_ip[p] = Origin

\* The timestamps of a vector that are less than the cooldown old at time t,
\* in their order.
Recent(requests, t) == SelectSeq(requests, LAMBDA time : t - time < Cooldown)

\* C16: the rate limit check of a request at time now leaves in the vector of
\* its origin exactly the timestamps t it held with now - t < cooldown, and
\* leaves every other vector as it was; it admits the request when fewer than
\* MAX_REQUESTS_PER_IP timestamps are left and denies it otherwise; the entry
\* of the origin exists from then on, whatever becomes of the request; and no
\* other step removes a timestamp.
C16_CheckPrunesOwnWindow ==
    [][/\ \A p \in Tasks :
             /\ (pc[p] = "ip_check" /\ pc'[p] # "ip_check")
                => LET ip == client_ip[p]
                       kept == Recent(Window(ip_requests, ip), now)
                   IN  /\ DOMAIN ip_requests' = DOMAIN ip_requests \cup {ip}
                       /\ ip_requests'[ip] = kept
                       /\ \A other \in DOMAIN ip_requests \ {ip} :
                             ip_requests'[other] = ip_requests[other]
                       /\ IF Len(kept) < MAX_REQUESTS_PER_IP
                          THEN pc'[p] = "addr_lock"
                          ELSE pc'[p] = "idle" /\ response'.kind = "RateLimited"
             /\ (pc'[p] \notin {"idle", "received", "ip_lock", "ip_check"}
                    /\ client_ip'[p] # NoIp)
                => client_ip'[p] \in DOMAIN ip_requests'
             /\ (pc[p] # "idle" /\ pc'[p] = "idle" /\ client_ip[p] # NoIp
                    /\ response'.kind # "InvalidAddress")
                => client_ip[p] \in DOMAIN ip_requests'
       /\ \A ip \in DOMAIN ip_requests :
             /\ ip \in DOMAIN ip_requests'
             /\ ip_requests'[ip] # ip_requests[ip] =>
                   \E p \in Tasks :
                       /\ client_ip[p] = ip
                       /\ pc[p] \in {"ip_check", "commit"}
                       /\ pc'[p] # pc[p]]_vars

\* C16 witness: one cooldown after its three grants the first origin has been
\* checked again: its vector is empty and the request is admitted, while the
\* vector of the second origin still holds a timestamp as old.
C16_Witness ==
    /\ now = Cooldown
    /\ Cardinality({g \in AllGrants : g.ip = Origin /\ g.time = 0})
          = MAX_REQUESTS_PER_IP
    /\ Origin \in DOMAIN ip_requests
    /\ ip_requests[Origin] = <<>>
    /\ \E p \in Tasks : pc[p] = "addr_lock" /\ client_ip[p] = Origin
    /\ Window(ip_requests, Origin2) = <<0>>

\* C17: a request without origin never takes the lock of ip_requests and
\* leaves the map as it is at every step, never returns RateLimited, goes from
\* validation straight to the cooldown check, and passes that check exactly
\* when its address has no grant less than the cooldown old.
C17_NoOriginSkipsLimit ==
    [][\A p \in Tasks :
          (pc[p] # "idle" /\ pc'[p] # pc[p] /\ client_ip[p] = NoIp)
          => /\ ip_requests' = ip_requests
             /\ ip_lock' = ip_lock
             /\ p \notin ip_lock
             /\ pc'[p] \notin {"ip_lock", "ip_check", "commit_lock", "commit"}
             /\ pc'[p] = "idle" => response'.kind # "RateLimited"
             /\ (pc[p] = "received" /\ is_valid_address(address[p]))
                   => pc'[p] = "addr_lock"
             /\ pc[p] = "addr_check" =>
                   (pc'[p] = "transfer" <=>
                       \A i \in 1 .. Len(GrantsOf(address[p])) :
                           now - GrantsOf(address[p])[i].time >= Cooldown)]_vars

\* C17 witness: a request without origin has been granted while the first
\* origin was at its ceiling, which makes four grants within one window, and
\* ip_requests has no entry for it.
C17_Witness ==
    /\ response.kind = "Ok"
    /\ response.ip = NoIp
    /\ NoIp \notin DOMAIN ip_requests
    /\ Len(Recent(Window(ip_requests, Origin), now)) = MAX_REQUESTS_PER_IP
    /\ Cardinality({g \in AllGrants : now - g.time < Cooldown})
          = MAX_REQUESTS_PER_IP + 1

\* The steps of a request: Received, Validated, Admitted (origin, then
\* address), Transferred, Committed, with the returns in between.
Order ==
    {<<"idle", "received">>,
     <<"received", "ip_lock">>, <<"received", "addr_lock">>,
     <<"received", "idle">>,
     <<"ip_lock", "ip_check">>,
     <<"ip_check", "addr_lock">>, <<"ip_check", "idle">>,
     <<"addr_lock", "addr_check">>,
     <<"addr_check", "transfer">>, <<"addr_check", "idle">>,
     <<"transfer", "commit_lock">>, <<"transfer", "idle">>,
     <<"commit_lock", "commit">>,
     <<"commit", "idle">>}

\* C18: a request moves through its steps in order; it passes validation only
\* with a valid address, the rate limit check only with fewer than
\* MAX_REQUESTS_PER_IP timestamps left in its origin's vector, and the cooldown
\* check only outside the cooldown of its address; send_transaction is called
\* at the step that passes the cooldown check and nowhere else; a request that
\* returns InvalidAddress, RateLimited or TooSoon has not called it; and the
\* maps get a grant only from a request whose send_transaction returned Ok.
C18_StepsInOrder ==
    [][/\ \A p \in Tasks :
             /\ pc'[p] # pc[p] => <<pc[p], pc'[p]>> \in Order
             /\ (pc[p] = "received" /\ pc'[p] \in {"ip_lock", "addr_lock"})
                   => /\ is_valid_address(address[p])
                      /\ pc'[p] = "ip_lock" <=> client_ip[p] # NoIp
             /\ (pc[p] = "ip_check" /\ pc'[p] = "addr_lock")
                   => Len(Recent(Window(ip_requests, client_ip[p]), now))
                          < MAX_REQUESTS_PER_IP
             /\ (pc[p] = "addr_check" /\ pc'[p] = "transfer")
                   => \A i \in 1 .. Len(GrantsOf(address[p])) :
                          now - GrantsOf(address[p])[i].time >= Cooldown
             /\ sent'[p] # sent[p] =>
                   \/ ~sent[p] /\ pc[p] = "addr_check" /\ pc'[p] = "transfer"
                   \/ sent[p] /\ pc'[p] = "idle"
             /\ sent'[p] <=> pc'[p] \in {"transfer", "commit_lock", "commit"}
             /\ (pc[p] # "idle" /\ pc'[p] = "idle") =>
                   /\ response'.kind \in {"InvalidAddress", "RateLimited",
                                          "TooSoon"}
                         => ~response'.sent /\ granted' = granted
                   /\ response'.kind \in {"Ok"} \cup GatewayErrors
                         => response'.sent
       /\ (\/ address_requests' # address_requests
           \/ granted' # granted
           \/ \E ip \in DOMAIN ip_requests' :
                 Len(ip_requests'[ip]) > Len(Window(ip_requests, ip)))
          => \E p \in Tasks :
                 /\ sent[p]
                 /\ TransferSucceeds(p) \/ (pc[p] = "commit" /\ pc'[p] = "idle")]_vars

\* C18 witness: a request whose transfer returned Ok is at its commit, with
\* its address recorded at its grant time, and the last response was a
\* rejection without transfer.
C18_Witness ==
    /\ response.kind \in {"InvalidAddress", "RateLimited", "TooSoon"}
    /\ ~response.sent
    /\ \E p \in Tasks :
          /\ pc[p] = "commit"
          /\ sent[p]
          /\ address_requests[address[p]] = req_now[p]

\* The locks are held by tasks at the steps between acquire and release only,
\* by one task at a time, and the lock of ip_requests is not held by a task
\* that waits for the lock of address_requests.
LocksInOrder ==
    /\ Cardinality(addr_lock) <= 1
    /\ Cardinality(ip_lock) <= 1
    /\ \A p \in Tasks :
          /\ p \in ip_lock <=> pc[p] \in {"ip_check", "commit"}
          /\ p \in addr_lock <=>
                pc[p] \in {"addr_check", "transfer", "commit_lock", "commit"}
          /\ pc[p] = "addr_lock" => p \notin ip_lock

\* Some request in flight can take a step.
NoDeadlock ==
    (\E p \in Tasks : pc[p] # "idle") => \E p \in Tasks : ENABLED Step(p)

\* C19: under a fair scheduler and with send_transaction returning, every
\* request returns, holding no lock afterwards; the locks are taken in an
\* order that cannot deadlock; and whatever the last response was, a request
\* in flight can go on.
C19_EveryRequestReturns ==
    /\ [](LocksInOrder /\ NoDeadlock)
    /\ \A p \in Tasks :
          (pc[p] # "idle") ~> (pc[p] = "idle" /\ p \notin addr_lock \cup ip_lock)

\* C19 witness: after a request returned the error of its transfer, a later
\* request has been admitted and holds the lock of address_requests while the
\* other task waits for it.
C19_Witness ==
    /\ response.kind \in GatewayErrors
    /\ \E p, q \in Tasks :
          /\ pc[p] = "transfer"
          /\ addr_lock = {p}
          /\ pc[q] = "addr_lock"

\* C20: with the clock of the model, which never goes back, the timestamps of
\* every vector are in non-decreasing order.
C20_WindowsOrdered ==
    \A ip \in DOMAIN ip_requests :
        \A i, j \in 1 .. Len(ip_requests[ip]) :
            i < j => ip_requests[ip][i] <= ip_requests[ip][j]

\* C20 witness: the vector of the origin holds two different grant times in
\* their order, and a further request of the origin is about to commit.
C20_Witness ==
    /\ Len(Window(ip_requests, Origin)) = 2
    /\ ip_requests[Origin][1] < ip_requests[Origin][2]
    /\ response.kind = "Ok"
    /\ \E p \in Tasks : pc[p] = "commit_lock" /\ client_ip[p] = Origin

====
